---- MODULE Spec2Model ----
(***************************************************************************)
(* Model of package env: Parse populates the fields of a struct from the   *)
(* process environment, driven by the `env:"..."` struct tags.             *)
(*                                                                         *)
(* Two revisions of the package are modelled side by side, selected by the *)
(* variable rev:                                                           *)
(*   "getenv" - src/env.go             (os.Getenv, inline type switch)     *)
(*   "lookup" - src/unnamed/part_000, lines 95-284                         *)
(*              (os.LookupEnv, parseStruct / setField)                     *)
(* The oldest revision (src/unnamed/part_000, lines 1-93) has no default   *)
(* option and no conversion errors; it is not modelled.                    *)
(*                                                                         *)
(* A Go string is a sequence of one-character strings.  A slice is a       *)
(* record [isNil, elems] so that the nil slice (the zero value) and an     *)
(* empty non-nil slice are different values.                               *)
(***************************************************************************)
EXTENDS Integers, Sequences, FiniteSets, TLC

\* ------------------------------------------------------------------ bounds

\* longest record (number of struct fields) the model binds
MaxFields == 3

\* ------------------------------------------------------------- Go strings

Digits == <<"0", "1", "2", "3", "4", "5", "6", "7", "8", "9">>

IsDigit(c) == \E d \in 1..10 : Digits[d] = c

DigitVal(c) == (CHOOSE d \in 1..10 : Digits[d] = c) - 1

\* strings.HasPrefix
HasPrefix(s, p) == Len(s) >= Len(p) /\ SubSeq(s, 1, Len(p)) = p

\* strings.Index for a one-character separator: 0 when absent
RECURSIVE IndexFrom(_, _, _)
IndexFrom(s, c, i) ==
    IF i > Len(s) THEN 0
    ELSE IF s[i] = c THEN i
    ELSE IndexFrom(s, c, i + 1)

Index(s, c) == IndexFrom(s, c, 1)

\* strings.Split(s, sep) for a one-character sep: always at least one
\* element, Split("", ",") is [""]
RECURSIVE Split(_, _)
Split(s, sep) ==
    LET i == Index(s, sep) IN
    IF i = 0 THEN <<s>>
    ELSE <<SubSeq(s, 1, i - 1)>> \o Split(SubSeq(s, i + 1, Len(s)), sep)

\* strings.SplitN(s, sep, 2): cut at the first sep only
SplitN2(s, sep) ==
    LET i == Index(s, sep) IN
    IF i = 0 THEN <<s>>
    ELSE <<SubSeq(s, 1, i - 1), SubSeq(s, i + 1, Len(s))>>

\* ------------------------------------------------------------ strconv

RECURSIVE AllDigits(_)
AllDigits(s) == s = <<>> \/ (IsDigit(Head(s)) /\ AllDigits(Tail(s)))

RECURSIVE DigitsValue(_)
DigitsValue(s) ==
    IF s = <<>> THEN 0
    ELSE 10 * DigitsValue(SubSeq(s, 1, Len(s) - 1)) + DigitVal(s[Len(s)])

HasSign(s) == s # <<>> /\ Head(s) \in {"+", "-"}

Unsigned(s) == IF HasSign(s) THEN Tail(s) ELSE s

\* strconv.ParseInt(s, 10, 64): an optional sign and one or more decimal
\* digits.  The literals of the model have at most four digits, so the
\* range error of the 64-bit conversion does not arise.
ParseInt(s) ==
    LET d == Unsigned(s) IN
    IF d = <<>> \/ ~AllDigits(d) THEN [ok |-> FALSE, v |-> 0]
    ELSE [ok |-> TRUE,
          v  |-> IF Head(s) = "-" THEN 0 - DigitsValue(d) ELSE DigitsValue(d)]

\* strconv.Atoi: ParseInt(s, 10, 0) narrowed to int
Atoi(s) == ParseInt(s)

TrueLits ==
    { <<"1">>, <<"t">>, <<"T">>, <<"t", "r", "u", "e">>,
      <<"T", "R", "U", "E">>, <<"T", "r", "u", "e">> }

FalseLits ==
    { <<"0">>, <<"f">>, <<"F">>, <<"f", "a", "l", "s", "e">>,
      <<"F", "A", "L", "S", "E">>, <<"F", "a", "l", "s", "e">> }

\* strconv.ParseBool
ParseBool(s) ==
    IF s \in TrueLits THEN [ok |-> TRUE, v |-> TRUE]
    ELSE IF s \in FalseLits THEN [ok |-> TRUE, v |-> FALSE]
    ELSE [ok |-> FALSE, v |-> FALSE]

RECURSIVE StripZeros(_)
StripZeros(s) ==
    IF s # <<>> /\ s[Len(s)] = "0" THEN StripZeros(SubSeq(s, 1, Len(s) - 1))
    ELSE s

\* strconv.ParseFloat(s, 64) on plain decimal literals: an optional sign,
\* digits with at most one point and at least one digit.  The value is the
\* decimal num / 10^scale with trailing zeros of the fraction dropped, so
\* "1.5" and "1.50" are the same float.  (Exponents, hex floats, inf and nan
\* are outside the literals of the model.)
ParseFloat(s) ==
    LET d    == Unsigned(s)
        p    == Index(d, ".")
        ip   == IF p = 0 THEN d ELSE SubSeq(d, 1, p - 1)
        fp   == IF p = 0 THEN <<>> ELSE StripZeros(SubSeq(d, p + 1, Len(d)))
        bad  == \/ ~AllDigits(ip)
                \/ ~AllDigits(fp)
                \/ (p # 0 /\ ~AllDigits(SubSeq(d, p + 1, Len(d))))
                \/ (ip = <<>> /\ (p = 0 \/ SubSeq(d, p + 1, Len(d)) = <<>>))
        mag  == DigitsValue(ip \o fp)
    IN  IF bad THEN [ok |-> FALSE, v |-> [num |-> 0, scale |-> 0]]
        ELSE [ok |-> TRUE,
              v  |-> [num   |-> IF Head(s) = "-" THEN 0 - mag ELSE mag,
                      scale |-> Len(fp)]]

\* ------------------------------------------------------------- the record

\* reflect.Kind (and, for a slice, the kind of its element) of a field.
\* "struct" is a field of the empty struct type struct{}; "map" stands for
\* the kinds neither revision converts.
Kinds ==
    { "string", "int", "int64", "bool", "float",
      "sliceString", "sliceInt", "sliceFloat", "map", "struct" }

IsSlice(kind) == kind \in {"sliceString", "sliceInt", "sliceFloat"}

\* field.Type().Elem().Kind() of a slice field
Elem(kind) ==
    CASE kind = "sliceString" -> "string"
      [] kind = "sliceInt"    -> "int"
      [] OTHER                -> "float"

NilSlice == [isNil |-> TRUE, elems |-> <<>>]

\* the zero value of a field, as in `&struct{...}{}`
Zero(kind) ==
    CASE kind = "string"            -> <<>>
      [] kind \in {"int", "int64"}  -> 0
      [] kind = "bool"              -> FALSE
      [] kind = "float"             -> [num |-> 0, scale |-> 0]
      [] kind = "struct"            -> <<>>
      [] OTHER                      -> NilSlice

\* ------------------------------------------------------------- errors

\* An error value: the class of its message (msg), the index of the field
\* it arose at (at), the environment variable its message names (env) and
\* the raw text its message quotes (text).
NoErr == [kind |-> "None", msg |-> "", at |-> 0, env |-> <<>>, text |-> <<>>]

Error(kind, msg, at, env, text) ==
    [kind |-> kind, msg |-> msg, at |-> at, env |-> env, text |-> text]

\* ------------------------------------------------------------- struct tags

Tag(env, opt, def) == [Env |-> env, Optional |-> opt, Default |-> def]

EmptyTag == Tag(<<>>, FALSE, <<>>)

optionalWord == <<"o", "p", "t", "i", "o", "n", "a", "l">>

defaultWord == <<"d", "e", "f", "a", "u", "l", "t">>

defaultEq == defaultWord \o <<"=">>

\* src/env.go: the loop over parts[1:], carrying opt and def
RECURSIVE parseTagOptions(_, _, _)
parseTagOptions(parts, opt, def) ==
    IF parts = <<>> THEN [opt |-> opt, def |-> def, err |-> "", text |-> <<>>]
    ELSE LET value == Head(parts) IN
         IF value = optionalWord
         THEN parseTagOptions(Tail(parts), TRUE, def)
         ELSE IF HasPrefix(value, defaultWord)
         THEN LET defParts == SplitN2(value, "=") IN
              IF Len(defParts) # 2
              THEN [opt |-> opt, def |-> def,
                    err |-> "invalid use of default", text |-> value]
              ELSE parseTagOptions(Tail(parts), opt, defParts[2])
         ELSE parseTagOptions(Tail(parts), opt, def)

\* parseTag with the error of a malformed default dropped
parseTagDropErr(hasTag, raw) ==
    IF ~hasTag THEN [tag |-> EmptyTag, ok |-> FALSE, err |-> "", text |-> <<>>]
    ELSE LET parts == Split(raw, ",") IN
         IF Len(parts) = 0 \/ parts[1] = <<>>
         THEN [tag |-> EmptyTag, ok |-> FALSE, err |-> "empty tag", text |-> <<>>]
         ELSE LET o == parseTagOptions(Tail(parts), FALSE, <<>>) IN
              [tag |-> Tag(parts[1], o.opt, o.def), ok |-> TRUE,
               err |-> "", text |-> <<>>]

\* src/env.go parseTag: (Tag, ok, err); err = "" is nil
parseTag(hasTag, raw) ==
    IF ~hasTag THEN [tag |-> EmptyTag, ok |-> FALSE, err |-> "", text |-> <<>>]
    ELSE LET parts == Split(raw, ",") IN
         IF Len(parts) = 0 \/ parts[1] = <<>>
         THEN [tag |-> EmptyTag, ok |-> FALSE, err |-> "empty tag", text |-> <<>>]
         ELSE LET o == parseTagOptions(Tail(parts), FALSE, <<>>) IN
              IF o.err # ""
              THEN [tag |-> EmptyTag, ok |-> FALSE, err |-> o.err, text |-> o.text]
              ELSE [tag |-> Tag(parts[1], o.opt, o.def), ok |-> TRUE,
                    err |-> "", text |-> <<>>]

\* part_000: the loop over parts[1:], updating result
RECURSIVE parseTagOptions2(_, _)
parseTagOptions2(parts, result) ==
    IF parts = <<>> THEN [tag |-> result, err |-> "", text |-> <<>>]
    ELSE LET part == Head(parts) IN
         IF part = optionalWord
         THEN parseTagOptions2(Tail(parts), [result EXCEPT !.Optional = TRUE])
         ELSE IF part = defaultWord
         THEN [tag |-> result, err |-> "default tag must have a value", text |-> <<>>]
         ELSE IF HasPrefix(part, defaultEq)
         THEN IF Len(part) <= 8
              THEN [tag |-> result, err |-> "default tag must have a value",
                    text |-> <<>>]
              ELSE parseTagOptions2(Tail(parts),
                       [result EXCEPT !.Default = SubSeq(part, 9, Len(part))])
         ELSE [tag |-> result, err |-> "unknown tag option", text |-> part]

\* part_000 parseTag
parseTag2(hasTag, raw) ==
    IF ~hasTag THEN [tag |-> EmptyTag, ok |-> FALSE, err |-> "", text |-> <<>>]
    ELSE IF raw = <<>>
    THEN [tag |-> EmptyTag, ok |-> FALSE, err |-> "env tag must not be empty",
          text |-> <<>>]
    ELSE LET parts == Split(raw, ",") IN
         IF parts[1] = <<>>
         THEN [tag |-> EmptyTag, ok |-> FALSE, err |-> "env tag must have a name",
               text |-> <<>>]
         ELSE LET o == parseTagOptions2(Tail(parts), Tag(parts[1], FALSE, <<>>)) IN
              IF o.err # ""
              THEN [tag |-> EmptyTag, ok |-> FALSE, err |-> o.err, text |-> o.text]
              ELSE [tag |-> o.tag, ok |-> TRUE, err |-> "", text |-> <<>>]

\* ------------------------------------------------------------- conversion

\* index of the first element strconv.Atoi rejects, 0 when all parse
RECURSIVE FirstBadInt(_, _)
FirstBadInt(elements, i) ==
    IF i > Len(elements) THEN 0
    ELSE IF ~Atoi(elements[i]).ok THEN i
    ELSE FirstBadInt(elements, i + 1)

\* the int slice both revisions build when every element parses
IntElems(elements) == [i \in 1..Len(elements) |-> Atoi(elements[i]).v]

\* A conversion result: err = "" is nil, v the value to store, text the raw
\* text the error quotes.
Converted(v) == [err |-> "", kind |-> "None", v |-> v, text |-> <<>>]

Failed(kind, err, text) == [err |-> err, kind |-> kind, v |-> NilSlice, text |-> text]

\* parseSlice returning the elements parsed before the first bad one
parseSlicePartial(value, elemKind) ==
    IF elemKind = "string"
    THEN Converted([isNil |-> FALSE, elems |-> Split(value, ",")])
    ELSE IF elemKind = "int"
    THEN LET values == Split(value, ",")
             bad    == FirstBadInt(values, 1)
         IN  IF bad # 0
             THEN Converted([isNil |-> FALSE,
                             elems |-> IntElems(SubSeq(values, 1, bad - 1))])
             ELSE Converted([isNil |-> FALSE, elems |-> IntElems(values)])
    ELSE Failed("UnsupportedType", "unsupported slice type", <<>>)

\* src/env.go parseSlice
parseSlice(value, elemKind) ==
    IF elemKind = "string"
    THEN Converted([isNil |-> FALSE, elems |-> Split(value, ",")])
    ELSE IF elemKind = "int"
    THEN LET values == Split(value, ",")
             bad    == FirstBadInt(values, 1)
         IN  IF bad # 0
             THEN Failed("ConversionError", "error parsing int slice", values[bad])
             ELSE Converted([isNil |-> FALSE, elems |-> IntElems(values)])
    ELSE Failed("UnsupportedType", "unsupported slice type", <<>>)

\* part_000 parseSlice
parseSlice2(value, elemKind) ==
    IF value = <<>>
    THEN Converted([isNil |-> FALSE, elems |-> <<>>])
    ELSE LET elements == Split(value, ",") IN
         IF elemKind = "string"
         THEN Converted([isNil |-> FALSE, elems |-> elements])
         ELSE IF elemKind = "int"
         THEN LET bad == FirstBadInt(elements, 1) IN
              IF bad # 0
              THEN Failed("ConversionError", "cannot parse as int", elements[bad])
              ELSE Converted([isNil |-> FALSE, elems |-> IntElems(elements)])
         ELSE Failed("UnsupportedType", "unsupported slice element type", <<>>)

\* part_000 setField (the field is settable: parseStruct passes exported
\* fields of an addressable struct only)
setField(kind, value) ==
    IF kind = "string" THEN Converted(value)
    ELSE IF kind \in {"int", "int64"}
    THEN LET r == ParseInt(value) IN
         IF ~r.ok THEN Failed("ConversionError", "cannot parse as int", value)
         ELSE Converted(r.v)
    ELSE IF kind = "bool"
    THEN LET r == ParseBool(value) IN
         IF ~r.ok THEN Failed("ConversionError", "cannot parse as bool", value)
         ELSE Converted(r.v)
    ELSE IF kind = "float"
    THEN LET r == ParseFloat(value) IN
         IF ~r.ok THEN Failed("ConversionError", "cannot parse as float", value)
         ELSE Converted(r.v)
    ELSE IF IsSlice(kind) THEN parseSlice2(value, Elem(kind))
    ELSE Failed("UnsupportedType", "unsupported field type", <<>>)

\* ------------------------------------------------------------- inputs

\* the environment variables the tags name
Names == { <<"A">>, <<"B">> }

\* os.Setenv'd texts of the variable A
ValuesA ==
    { <<>>,
      <<"1", "2">>,
      <<"-", "3">>,
      <<"x">>,
      <<"t", "r", "u", "e">>,
      <<"1", ".", "5">>,
      <<"a", ",", "b", ",", "c">>,
      <<"8", ",", "9">>,
      <<"8", ",", "x", ",", "9">> }

\* os.Setenv'd texts of the variable B
ValuesB == { <<"8", ",", "9">>, <<"8", ",", "x", ",", "9">> }

Unset == [set |-> FALSE, val |-> <<>>]

SetTo(s) == [set |-> TRUE, val |-> s]

\* the process environment: each variable is unset or set to a text
Environments ==
    { [n \in Names |-> IF n = <<"A">> THEN a ELSE b] :
        a \in {Unset} \cup {SetTo(s) : s \in ValuesA},
        b \in {Unset} \cup {SetTo(s) : s \in ValuesB} }

\* the option lists written after the name
OptionLists ==
    { <<>>,
      <<",">> \o optionalWord,
      <<",">> \o defaultEq \o <<"1">>,
      <<",">> \o optionalWord \o <<",">> \o defaultEq \o <<"1">>,
      <<",">> \o defaultWord,
      <<",">> \o optionalWord \o <<",">> \o defaultWord,
      <<",">> \o defaultEq,
      <<",">> \o defaultWord \o <<"x", "=", "1">>,
      <<",">> \o <<"x">> }

\* a field without an env tag
NoTag == [hasTag |-> FALSE, raw |-> <<>>]

\* every tag a single-field record is given: the tags of A, the empty tag,
\* a tag without a name, and no env tag at all
TagsA ==
    { [hasTag |-> TRUE, raw |-> <<"A">> \o o] : o \in OptionLists }
    \cup { [hasTag |-> TRUE, raw |-> <<>>],
           [hasTag |-> TRUE, raw |-> <<",">> \o optionalWord],
           NoTag }

Field(kind, tag, exported) ==
    [kind |-> kind, hasTag |-> tag.hasTag, raw |-> tag.raw, exported |-> exported]

\* the fields of a one-field struct: every kind under every tag
Fields1 == { Field(k, t, e) : k \in Kinds, t \in TagsA, e \in BOOLEAN }

\* the fields of a longer struct
FieldsN ==
    { Field(k, [hasTag |-> TRUE, raw |-> r], TRUE) :
        k \in {"string", "sliceInt"},
        r \in { <<"A">>, <<"B">>, <<"B">> \o <<",">> \o defaultWord } }

\* the struct types Parse is called with
Structs ==
    { <<f>> : f \in Fields1 }
    \cup UNION { [1..n -> FieldsN] : n \in 2..MaxFields }

\* ------------------------------------------------------------- state

VARIABLES
    rev,        \* the revision of the package that runs
    fields,     \* t (env.go:15): kind, tag and visibility of each field
    environ,    \* the process environment read at env.go:43
    obj,        \* v (env.go:20): the struct Parse is given a pointer to
    assigned,   \* history: assigned[i] iff field i was Set by this call
    resolved,   \* history: the `value` (env.go:43) field i was converted from
    idx,        \* the loop variable i (env.go:25), from 1
    err,        \* the error Parse returns, NoErr for nil
    pc          \* "loop" while Parse iterates, "done" once it has returned

vars == <<rev, fields, environ, obj, assigned, resolved, idx, err, pc>>

NotResolved == [has |-> FALSE, s |-> <<>>]

Init ==
    /\ rev \in {"getenv", "lookup"}
    /\ fields \in Structs
    /\ environ \in Environments
    /\ obj = [i \in 1..Len(fields) |-> Zero(fields[i].kind)]
    /\ assigned = [i \in 1..Len(fields) |-> FALSE]
    /\ resolved = [i \in 1..Len(fields) |-> NotResolved]
    /\ idx = 1
    /\ err = NoErr
    /\ pc = "loop"

\* os.Getenv: the empty string when the variable is not present
Getenv(key) ==
    IF key \in DOMAIN environ /\ environ[key].set THEN environ[key].val ELSE <<>>

\* os.LookupEnv
LookupEnv(key) ==
    IF key \in DOMAIN environ /\ environ[key].set
    THEN [value |-> environ[key].val, exists |-> TRUE]
    ELSE [value |-> <<>>, exists |-> FALSE]

\* What one iteration of the field loop does: the error it returns (NoErr to
\* go on), whether it Sets the field and to what, and the value it resolved.
Skipped == [err |-> NoErr, set |-> FALSE, v |-> <<>>, res |-> NotResolved]

Returned(e, res) == [err |-> e, set |-> FALSE, v |-> <<>>, res |-> res]

Stored(v, value) ==
    [err |-> NoErr, set |-> TRUE, v |-> v, res |-> [has |-> TRUE, s |-> value]]

Ignored(value) ==
    [err |-> NoErr, set |-> FALSE, v |-> <<>>, res |-> [has |-> TRUE, s |-> value]]

\* src/env.go Parse: the kind switch
ParseKind(f, i, value) ==
    IF IsSlice(f.kind)
    THEN LET r == parseSlice(value, Elem(f.kind)) IN
         IF r.err # ""
         THEN Returned(Error(r.kind, r.err, i, <<>>, r.text),
                       [has |-> TRUE, s |-> value])
         ELSE Stored(r.v, value)
    ELSE IF f.kind = "string" THEN Stored(value, value)
    ELSE IF f.kind = "int"
    THEN LET r == ParseInt(value) IN
         IF ~r.ok
         THEN Returned(Error("ConversionError", "error parsing int field", i,
                             <<>>, value),
                       [has |-> TRUE, s |-> value])
         ELSE Stored(r.v, value)
    ELSE Ignored(value)

\* the loop body without the check for a missing required variable
ParseFieldNoRequired(f, i) ==
    IF ~f.exported THEN Skipped
    ELSE LET t == parseTag(f.hasTag, f.raw) IN
         IF t.err # ""
         THEN Returned(Error("MalformedAnnotation", t.err, i, <<>>, t.text),
                       NotResolved)
         ELSE IF ~t.ok THEN Skipped
         ELSE LET env   == Getenv(t.tag.Env)
                  value == IF env = <<>> THEN t.tag.Default ELSE env
              IN  ParseKind(f, i, value)

\* src/env.go Parse: the body of the loop for field i
ParseField(f, i) ==
    IF ~f.exported THEN Skipped
    ELSE LET t == parseTag(f.hasTag, f.raw) IN
         IF t.err # ""
         THEN Returned(Error("MalformedAnnotation", t.err, i, <<>>, t.text),
                       NotResolved)
         ELSE IF ~t.ok THEN Skipped
         ELSE LET env   == Getenv(t.tag.Env)
                  value == IF env = <<>> THEN t.tag.Default ELSE env
              IN  IF value = <<>> /\ ~t.tag.Optional
                  THEN Returned(Error("MissingRequired", "missing required env",
                                      i, t.tag.Env, <<>>),
                                NotResolved)
                  ELSE ParseKind(f, i, value)

\* part_000 parseStruct: the body of the loop for field i
parseStructField(f, i) ==
    IF ~f.exported THEN Skipped
    ELSE IF f.kind = "struct" THEN Skipped
    ELSE LET t == parseTag2(f.hasTag, f.raw) IN
         IF t.err # ""
         THEN Returned(Error("MalformedAnnotation", t.err, i, <<>>, t.text),
                       NotResolved)
         ELSE IF ~t.ok THEN Skipped
         ELSE LET l == LookupEnv(t.tag.Env) IN
              IF ~l.exists /\ t.tag.Optional THEN Skipped
              ELSE IF ~l.exists /\ t.tag.Default = <<>>
              THEN Returned(Error("MissingRequired",
                                  "required environment variable not set",
                                  i, t.tag.Env, <<>>),
                            NotResolved)
              ELSE LET value == IF l.exists THEN l.value ELSE t.tag.Default
                       r     == setField(f.kind, value)
                   IN  IF r.err # ""
                       THEN Returned(Error(r.kind, r.err, i, <<>>, r.text),
                                     [has |-> TRUE, s |-> value])
                       ELSE Stored(r.v, value)

\* the loop going on to the next field after an error
ApplyNoAbort(o) ==
    /\ resolved' = [resolved EXCEPT ![idx] = o.res]
    /\ err' = IF o.err # NoErr THEN o.err ELSE err
    /\ obj' = IF o.set THEN [obj EXCEPT ![idx] = o.v] ELSE obj
    /\ assigned' = [assigned EXCEPT ![idx] = o.set]
    /\ idx' = idx + 1
    /\ UNCHANGED <<pc, rev, fields, environ>>

\* apply the outcome o of the iteration for field idx
Apply(o) ==
    /\ resolved' = [resolved EXCEPT ![idx] = o.res]
    /\ IF o.err # NoErr
       THEN /\ err' = o.err
            /\ pc' = "done"
            /\ UNCHANGED <<obj, assigned, idx>>
       ELSE /\ obj' = IF o.set THEN [obj EXCEPT ![idx] = o.v] ELSE obj
            /\ assigned' = [assigned EXCEPT ![idx] = o.set]
            /\ idx' = idx + 1
            /\ UNCHANGED <<err, pc>>
    /\ UNCHANGED <<rev, fields, environ>>

\* src/env.go Parse: one iteration of `for i := 0; i < t.NumField(); i++`
ParseStep ==
    /\ rev = "getenv"
    /\ pc = "loop"
    /\ idx <= Len(fields)
    /\ Apply(ParseField(fields[idx], idx))

\* src/env.go Parse: the loop is over, `return nil`
ParseReturn ==
    /\ rev = "getenv"
    /\ pc = "loop"
    /\ idx > Len(fields)
    /\ pc' = "done"
    /\ UNCHANGED <<rev, fields, environ, obj, assigned, resolved, idx, err>>

\* part_000 parseStruct: one iteration of the field loop
parseStructStep ==
    /\ rev = "lookup"
    /\ pc = "loop"
    /\ idx <= Len(fields)
    /\ Apply(parseStructField(fields[idx], idx))

\* part_000 parseStruct: the loop is over, `return nil`
parseStructReturn ==
    /\ rev = "lookup"
    /\ pc = "loop"
    /\ idx > Len(fields)
    /\ pc' = "done"
    /\ UNCHANGED <<rev, fields, environ, obj, assigned, resolved, idx, err>>

Next ==
    \/ ParseStep
    \/ ParseReturn
    \/ parseStructStep
    \/ parseStructReturn

Spec == Init /\ [][Next]_vars

\* ------------------------------------------------------------- the claims

\* The annotation grammar `name ("," option)*`, read off the raw tag.
Parts(f) == Split(f.raw, ",")

TagName(f) == Parts(f)[1]

Options(f) == Tail(Parts(f))

IsDefaultOption(o) == HasPrefix(o, defaultEq) /\ Len(o) > Len(defaultEq)

WellFormed(f) ==
    /\ f.hasTag
    /\ TagName(f) # <<>>
    /\ \A k \in 1..Len(Options(f)) :
          Options(f)[k] = optionalWord \/ IsDefaultOption(Options(f)[k])

IsOptional(f) == \E k \in 1..Len(Options(f)) : Options(f)[k] = optionalWord

HasDefault(f) == \E k \in 1..Len(Options(f)) : IsDefaultOption(Options(f)[k])

\* the literal X of the last default=X option
DefaultOf(f) ==
    LET k == CHOOSE k \in 1..Len(Options(f)) :
                 /\ IsDefaultOption(Options(f)[k])
                 /\ \A m \in (k + 1)..Len(Options(f)) :
                        ~IsDefaultOption(Options(f)[m])
    IN  SubSeq(Options(f)[k], Len(defaultEq) + 1, Len(Options(f)[k]))

Required(f) == WellFormed(f) /\ ~IsOptional(f) /\ ~HasDefault(f)

\* an accessible field that is bound from its annotation (not a sub-record)
Leaf(f) == f.exported /\ f.kind # "struct"

\* the declared types the claims speak of
Supported(kind) ==
    kind \in {"string", "int", "bool", "float", "sliceString", "sliceInt"}

Scalar(kind) == kind \in {"string", "int", "bool", "float"}

\* the conversion table: the typed value of text s for a field of this kind
TableValue(kind, s) ==
    CASE kind = "string"           -> [ok |-> TRUE, v |-> s]
      [] kind \in {"int", "int64"} -> ParseInt(s)
      [] kind = "bool"             -> ParseBool(s)
      [] kind = "float"            -> ParseFloat(s)
      [] kind = "sliceString"      ->
            [ok |-> TRUE, v |-> IF s = <<>> THEN <<>> ELSE Split(s, ",")]
      [] kind = "sliceInt"         ->
            IF s = <<>> THEN [ok |-> TRUE, v |-> <<>>]
            ELSE [ok |-> \A k \in 1..Len(Split(s, ",")) : ParseInt(Split(s, ",")[k]).ok,
                  v  |-> [k \in 1..Len(Split(s, ",")) |-> ParseInt(Split(s, ",")[k]).v]]

\* the content of a field: the elements of a slice, the value of a scalar
Content(kind, v) == IF IsSlice(kind) THEN v.elems ELSE v

Holds(i, s) ==
    Content(fields[i].kind, obj[i]) = TableValue(fields[i].kind, s).v

IsZero(i) ==
    Content(fields[i].kind, obj[i]) = Content(fields[i].kind, Zero(fields[i].kind))

IsSet(f) == environ[TagName(f)].set

\* the loop has dealt with field i: gone past it, or returned its error
Processed(i) == idx > i \/ (err # NoErr /\ idx = i)

FailedAt(i, kind) == err.kind = kind /\ err.at = i /\ pc = "done"

\* C1: a field with default=X whose variable is set to Y, Y possibly empty,
\* equals the converted value of Y after Parse; the set variable always wins
\* over the default.
C1_SetVariableWinsOverDefault ==
    \A i \in 1..Len(fields) :
        LET f == fields[i] IN
        ( /\ Leaf(f) /\ Supported(f.kind)
          /\ WellFormed(f) /\ HasDefault(f)
          /\ IsSet(f)
          /\ TableValue(f.kind, environ[TagName(f)].val).ok
          /\ Processed(i) )
        => (err.at # i /\ Holds(i, environ[TagName(f)].val))

\* C2: a record of required string, integer, boolean and float fields whose
\* variables are all set to valid (here: non-empty) literals is bound without
\* error, and every field is assigned the value parsed from its variable.
C2_RequiredScalarsAreBound ==
    ( /\ pc = "done"
      /\ \A i \in 1..Len(fields) :
            LET f == fields[i] IN
            /\ Leaf(f) /\ Scalar(f.kind) /\ Required(f)
            /\ IsSet(f)
            /\ environ[TagName(f)].val # <<>>
            /\ TableValue(f.kind, environ[TagName(f)].val).ok )
    => ( /\ err = NoErr
         /\ \A i \in 1..Len(fields) :
               assigned[i] /\ Holds(i, environ[TagName(fields[i])].val) )

\* C3: an optional field without default, of any supported type, whose
\* variable is not set, causes no error and still holds its zero value.
C3_OptionalUnsetKeepsZero ==
    \A i \in 1..Len(fields) :
        LET f == fields[i] IN
        ( /\ Leaf(f) /\ Supported(f.kind)
          /\ WellFormed(f) /\ IsOptional(f) /\ ~HasDefault(f)
          /\ ~IsSet(f)
          /\ Processed(i) )
        => (err.at # i /\ IsZero(i))

\* C4: a required field (neither optional nor default) whose variable is
\* unset makes Parse return the missing-required error naming that variable,
\* and the field is not assigned.
C4_MissingRequiredFails ==
    \A i \in 1..Len(fields) :
        LET f == fields[i] IN
        ( /\ Leaf(f) /\ Required(f)
          /\ ~IsSet(f)
          /\ Processed(i) )
        => ( /\ FailedAt(i, "MissingRequired")
             /\ err.env = TagName(f)
             /\ ~assigned[i]
             /\ obj[i] = Zero(f.kind) )

C4_Witness ==
    \E i \in 1..Len(fields) :
        /\ i > 1
        /\ Leaf(fields[i]) /\ Required(fields[i]) /\ ~IsSet(fields[i])
        /\ FailedAt(i, "MissingRequired")
        /\ err.env = <<"B">>

\* C5: a field with default=X, optional or not, whose variable is unset
\* equals the converted value of X after a successful Parse.
C5_DefaultFillsUnset ==
    \A i \in 1..Len(fields) :
        LET f == fields[i] IN
        ( /\ Leaf(f) /\ Supported(f.kind)
          /\ WellFormed(f) /\ HasDefault(f)
          /\ ~IsSet(f)
          /\ TableValue(f.kind, DefaultOf(f)).ok
          /\ pc = "done" /\ err = NoErr )
        => Holds(i, DefaultOf(f))

\* strings.Join(elems, ",")
RECURSIVE Join(_)
Join(elems) ==
    IF elems = <<>> THEN <<>>
    ELSE IF Len(elems) = 1 THEN elems[1]
    ELSE elems[1] \o <<",">> \o Join(Tail(elems))

\* C6: a sequence-of-string field bound from the resolved string s holds the
\* comma-separated segments of s in order and verbatim, and holds no element
\* at all when s is the empty string.
C6_StringSliceSegments ==
    \A i \in 1..Len(fields) :
        ( /\ fields[i].kind = "sliceString"
          /\ assigned[i] )
        => LET s == resolved[i].s
               e == obj[i].elems
           IN  /\ Join(e) = s
               /\ \A k \in 1..Len(e) : Index(e[k], ",") = 0
               /\ (s = <<>> => Len(e) = 0)

\* the comma-separated elements of the text s; the empty text has none
Elements(s) == IF s = <<>> THEN <<>> ELSE Split(s, ",")

HasBadInt(s) == \E k \in 1..Len(Elements(s)) : ~ParseInt(Elements(s)[k]).ok

C8_UnknownOptionFails ==
    \A i \in 1..Len(fields) :
        LET f == fields[i] IN
        ( /\ Leaf(f)
          /\ f.hasTag /\ TagName(f) # <<>>
          /\ ~WellFormed(f)
          /\ Processed(i) )
        => FailedAt(i, "MalformedAnnotation")

HasBareDefault(f) ==
    f.hasTag /\ \E k \in 1..Len(Options(f)) : Options(f)[k] = defaultWord

InOrder ==
    /\ (err # NoErr => (pc = "done" /\ err.at = idx))
    /\ \A j \in 1..Len(fields) :
          j >= idx => (~assigned[j] /\ obj[j] = Zero(fields[j].kind))

\* what holds of every step of the loop
NoRollback ==
    /\ idx' \in {idx, idx + 1}
    /\ \A j \in 1..Len(fields) :
          /\ j # idx => (obj'[j] = obj[j] /\ assigned'[j] = assigned[j])
          /\ assigned[j] => (assigned'[j] /\ obj'[j] = obj[j])
    /\ (err' # NoErr => (obj' = obj /\ assigned' = assigned /\ idx' = idx))

\* C10: Parse binds the fields in declaration order and stops at the first
\* that fails: the error is that field's, the fields bound before it keep
\* their new values, and that field and those after it are as before the call.
C10_StopsAtFirstFailure == []InOrder /\ [][NoRollback]_vars

C10_Witness ==
    /\ err # NoErr
    /\ Len(fields) = MaxFields
    /\ idx = 2
    /\ assigned[1]
    /\ obj[1] # Zero(fields[1].kind)

====
